---- MODULE Spec2Model ----
(***************************************************************************)
(* A model of the ROM facade of framework/Models/ROM.py: one ROM object,   *)
(* the backend instances it holds in supervisedContainer, and the          *)
(* operations the framework calls on it (configuration, train, evaluate,   *)
(* reset, _copyModel, and the pickle round trip __getstate__ /             *)
(* __setstate__).  The backend instances, the factory and the helpers of   *)
(* mathUtils and of the data objects live outside ROM.py; they are         *)
(* modelled by what the facade relies on.                                  *)
(*                                                                         *)
(* Objects: the two objects the facade keeps a named reference to          *)
(* (_interfaceROM, _segmentROM) carry that name in their field obj; every  *)
(* other instance (a deep copy, an instance made by the factory on         *)
(* restore) is anonymous, and `created` tells which of the held instances  *)
(* the last operation has made.                                            *)
(***************************************************************************)
EXTENDS Naturals, Sequences, FiniteSets

VARIABLES
  self,      \* the attribute dictionary (__dict__) of the ROM object
  d,         \* the serialized state in flight: <<>> or <<the dict of __getstate__>>
  outcome,   \* what the last operation did: its name, what it raised, what it returned
  calls,     \* the calls the last operation made on backend instances, in order
  created,   \* the positions of supervisedContainer holding objects the last operation made
  copied,    \* history: a _copyModel has completed on this facade
  initialized, \* history: how often initialize ran, retrieved the CV object, set the estimator
  lda,       \* a LinearDiscriminantAnalysisClassifier being configured: its document and model
  pool       \* the workers that run initialize concurrently: where each is in lines 232-240

vars == <<self, d, outcome, calls, created, copied, initialized, lda, pool>>

\* ------------------------------------------------------------------ bounds
\* the longest pivot sequence of a training set
MaxSteps == 2
\* the largest number of query points of an evaluation request
MaxQuery == 2
\* the largest training set passed to convergence (its len)
MaxSize == 3
\* the most initialize calls made on one facade
MaxInit == 3
\* the number of workers that may run initialize at the same time
MaxThreads == 2

\* ------------------------------------------------------------------ values
None == "None"
Targets == {"y1", "y2"}
Unfit == [name |-> None, ts |-> 0]
NoArg == [name |-> None, ts |-> 0]

\* ROM.segmentNameToClass
segmentNameToClass == [segment |-> "Segments", cluster |-> "Clusters", interpolate |-> "Interpolated"]

\* The names the factory knows (the backend classes and the three collections).
registered == {"LinearDiscriminantAnalysisClassifier", "DynamicModeDecomposition", "pickledROM",
               "Segments", "Clusters", "Interpolated"}

\* factory.returnInstance(name): a fresh, unconfigured, unfit object of class `name`.
returnInstance(name) ==
  [obj |-> "anonymous", class |-> name, configured |-> FALSE, fit |-> Unfit,
   target |-> {}, settings |-> <<>>]

\* isDynamic() of a backend class: whether it handles time-dependent data natively.
isDynamic(class) == class = "DynamicModeDecomposition"

\* ------------------------------------------------------------------ backend instance
\* train(data) of a backend instance: re-fits from scratch on data.
Backend_train(rom, data) == [rom EXCEPT !.fit = data]

\* reset() of a backend instance: clears the fitted state.
Backend_reset(rom) == [rom EXCEPT !.fit = Unfit]

\* run(request) of a backend instance: one value per query point, for every target.
Backend_run(rom, nq) ==
  [t \in rom.target |-> [q \in 1..nq |-> [fit |-> rom.fit, target |-> t, point |-> q]]]

\* setAdditionalParams(params) of a backend instance.
Backend_setAdditionalParams(rom, params) == [rom EXCEPT !.settings = params]

\* _readMoreXML / _handleInput of a backend instance: it is configured with the targets.
Backend_readMoreXML(rom) == [rom EXCEPT !.configured = TRUE, !.target = Targets]

\* copy.deepcopy of an instance, of a list of instances: equal objects, new identities.
deepcopyOne(rom) == [rom EXCEPT !.obj = "anonymous"]
deepcopy(container) == [i \in 1..Len(container) |-> deepcopyOne(container[i])]

\* ------------------------------------------------------------------ training sets
Names == {"A", "B"}

\* The step counts of the histories of a time-dependent set, one per realization.
Lens == [1..1 -> 0..MaxSteps] \cup [1..2 -> 0..MaxSteps]

\* Static sets: no variable is a list.  Time-dependent sets: some variable is a list
\* (one history per realization, lens[r] steps in realization r); pivotName is the name
\* under which the set carries its time stamps, pivotKind whether that variable is a list.
StaticSets ==
  [type : {"dict", "PointSet"}, name : Names, pivotName : {"time"}, pivotKind : {"array"},
   anyList : {FALSE}, lens : {<<>>}]
DynamicSets ==
  [type : {"dict", "HistorySet"}, name : Names, pivotName : {"time"}, pivotKind : {"list"},
   anyList : {TRUE}, lens : Lens]
  \cup
  [type : {"dict", "HistorySet"}, name : Names, pivotName : {"t"}, pivotKind : {"list"},
   anyList : {TRUE}, lens : {<<1>>, <<2, 1>>}]
  \cup
  [type : {"dict"}, name : {"A"}, pivotName : {"time", "t"}, pivotKind : {"array"},
   anyList : {TRUE}, lens : {<<1>>}]
TrainingSets == StaticSets \cup DynamicSets

\* whether all realizations have the same number of steps
aligned(ts) == \A i, j \in DOMAIN ts.lens : ts.lens[i] = ts.lens[j]

\* checkIndexAlignment(indexesToCheck=pivot) of a HistorySet
checkIndexAlignment(ts) == aligned(ts)

\* mathUtils.historySnapShoots(trainingSet, n): the n per-timestep slices, or (ok = FALSE)
\* a message in place of the list when the histories are not consistent.
historySnapShoots(ts, n) ==
  IF aligned(ts)
  THEN [ok |-> TRUE, slices |-> [i \in 1..n |-> [name |-> ts.name, ts |-> i]]]
  ELSE [ok |-> FALSE, slices |-> <<>>]

\* the whole training set as the data of one backend train call (ts = 0: not a slice)
whole(ts) == [name |-> ts.name, ts |-> 0]

\* ------------------------------------------------------------------ results of an operation
\* cs: the calls made on backend instances; cr: the positions of the container that hold
\* objects the operation made.
Raise(s, op, err, cs, cr) ==
  [self |-> s, calls |-> cs, created |-> cr,
   outcome |-> [op |-> op, raised |-> err, value |-> <<>>]]
Return(s, op, val, cs, cr) ==
  [self |-> s, calls |-> cs, created |-> cr,
   outcome |-> [op |-> op, raised |-> None, value |-> val]]

\* a call of `method` on the instance at position i of the container
Call(i, method, arg) == [at |-> i, method |-> method, arg |-> arg]

\* ------------------------------------------------------------------ ROM.__init__
ROM_init ==
  [amITrained |-> FALSE, cvInstanceName |-> None, cvInstance |-> None,
   _estimatorName |-> None, _estimator |-> None, _interfaceROM |-> None,
   pickled |-> FALSE, pivotParameterId |-> "time", canHandleDynamicData |-> FALSE,
   isADynamicModel |-> FALSE, supervisedContainer |-> <<>>, historySteps |-> <<>>,
   segment |-> FALSE, seed |-> None, _segmentROM |-> None,
   _paramInput |-> <<>>, subType |-> "", trainingSet |-> None, assemblerDict |-> {}]

\* ------------------------------------------------------------------ configuration
\* The configuration documents: the subType selector and the optional nodes.
Configs ==
  [subType : {"LinearDiscriminantAnalysisClassifier", "DynamicModeDecomposition", "pickledROM", "NoSuchROM"},
   Segment : {None, "segment", "cluster", "interpolate"},
   pivotParameter : {None, "t"},
   CV : {None},
   estimator : {None}]

\* _readMoreXML whose lookup of the subType never fails: an instance of whatever class
\* is named is made
_readMoreXML_noLookup(s, xml) ==
  LET interface == [Backend_readMoreXML(returnInstance(xml.subType)) EXCEPT !.obj = "_interfaceROM"]
      s1 == [s EXCEPT
               !.subType = xml.subType,
               !._paramInput = <<xml>>,
               !._interfaceROM = "_interfaceROM",
               !.supervisedContainer = <<interface>>,
               !.pickled = IF xml.subType = "pickledROM" THEN TRUE ELSE @,
               !.canHandleDynamicData = isDynamic(xml.subType)]
  IN Return(s1, "_readMoreXML", <<>>, <<>>, {1})

\* ROM._readMoreXML(xmlNode), with the getInputSpecification(xml) it starts with.
_readMoreXML(s, xml) ==
  LET s0 == [s EXCEPT !.subType = xml.subType]
  IN
  IF xml.subType \notin registered
  THEN Raise(s0, "_readMoreXML", "LookupError", <<>>, {})
  ELSE
    LET interface == [Backend_readMoreXML(returnInstance(xml.subType)) EXCEPT !.obj = "_interfaceROM"]
        isSegment == xml.Segment # None
        wrapper   == [Backend_readMoreXML(returnInstance(segmentNameToClass[xml.Segment]))
                        EXCEPT !.obj = "_segmentROM"]
        s1 == [s0 EXCEPT
                 !._paramInput = <<xml>>,
                 !.cvInstanceName = IF xml.CV # None THEN xml.CV ELSE @,
                 !._estimatorName = xml.estimator,
                 !._interfaceROM = "_interfaceROM",
                 !.segment = IF isSegment THEN TRUE ELSE @,
                 !._segmentROM = IF isSegment THEN "_segmentROM" ELSE @,
                 !.supervisedContainer = IF isSegment THEN <<wrapper>> ELSE <<interface>>,
                 !.pickled = IF xml.subType = "pickledROM" THEN TRUE ELSE @,
                 !.pivotParameterId = IF xml.pivotParameter # None THEN xml.pivotParameter ELSE @,
                 !.canHandleDynamicData = isDynamic(xml.subType)]
    IN Return(s1, "_readMoreXML", <<>>, <<>>, {1})

\* ------------------------------------------------------------------ reset
\* ROM.reset()
reset(s) ==
  LET c == s.supervisedContainer
  IN Return([s EXCEPT !.supervisedContainer = [i \in 1..Len(c) |-> Backend_reset(c[i])],
                      !.amITrained = FALSE],
            "reset", <<>>, [i \in 1..Len(c) |-> Call(i, "reset", NoArg)], {})

\* ------------------------------------------------------------------ train
\* trainOne that leaves amITrained as it was (line 366 left out)
trainOne_noFlag(s, i, data, fails) ==
  LET c  == s.supervisedContainer
      cs == <<Call(i, "train", data)>>
  IN IF fails
     THEN Raise(s, "train", "BackendError", cs, {})
     ELSE Return([s EXCEPT !.supervisedContainer[i] = Backend_train(c[i], data)],
                 "train", <<>>, cs, {})

\* One train call on container[i] with data; it raises when fails is TRUE.
trainOne(s, i, data, fails) ==
  LET c  == s.supervisedContainer
      cs == <<Call(i, "train", data)>>
  IN IF fails
     THEN Raise(s, "train", "BackendError", cs, {})
     ELSE Return([s EXCEPT !.supervisedContainer[i] = Backend_train(c[i], data),
                           !.amITrained = TRUE],
                 "train", <<>>, cs, {})

\* trainChain building one instance less than there are steps (range(len - 1))
trainChain_dropLast(s, trainingSet, failAt) ==
  LET steps == Len(s.historySteps) - 1
      newTrainingSet == historySnapShoots(trainingSet, Len(s.historySteps))
      originalROM == s.supervisedContainer[1]
      chain  == [i \in 1..steps |-> Backend_train(deepcopyOne(originalROM), newTrainingSet.slices[i])]
      cs     == [i \in 1..steps |-> Call(i, "train", newTrainingSet.slices[i])]
  IN IF ~newTrainingSet.ok
     THEN Raise(s, "train", "AssertionError", <<>>, {})
     ELSE Return([s EXCEPT !.supervisedContainer = chain, !.amITrained = TRUE],
                 "train", <<>>, cs, 1..steps)

\* The chain of ROMs of lines 352-360: slice, clone the first instance once per step,
\* train clone ts on slice ts.  failAt is the backend train call that raises (0: none).
trainChain(s, trainingSet, failAt) ==
  LET steps == Len(s.historySteps)
      newTrainingSet == historySnapShoots(trainingSet, steps)
      originalROM == s.supervisedContainer[1]
      clones == [i \in 1..steps |-> deepcopyOne(originalROM)]
      fails  == failAt \in 1..steps
      done   == IF fails THEN failAt - 1 ELSE steps
      called == IF fails THEN failAt ELSE steps
      chain  == [i \in 1..steps |->
                   IF i <= done THEN Backend_train(clones[i], newTrainingSet.slices[i]) ELSE clones[i]]
      cs     == [i \in 1..called |-> Call(i, "train", newTrainingSet.slices[i])]
      s1     == [s EXCEPT !.supervisedContainer = chain]
  IN IF ~newTrainingSet.ok
     THEN Raise(s, "train", "AssertionError", <<>>, {})
     ELSE IF fails
     THEN Raise(s1, "train", "BackendError", cs, 1..steps)
     ELSE Return([s1 EXCEPT !.amITrained = TRUE], "train", <<>>, cs, 1..steps)

\* trainDynamic that never asks canHandleDynamicData (lines 344-346 left out)
trainDynamic_alwaysChain(s, trainingSet, failAt) ==
  LET s1 == [s EXCEPT !.isADynamicModel = TRUE]
      last == trainingSet.lens[Len(trainingSet.lens)]
      s2 == [s1 EXCEPT !.historySteps = [i \in 1..last |-> i]]
  IN IF trainingSet.pivotName # s.pivotParameterId
     THEN Raise(s1, "train", "IOError:pivotAbsent", <<>>, {})
     ELSE IF trainingSet.pivotKind # "list"
     THEN Raise(s1, "train", "IOError:pivotNotAList", <<>>, {})
     ELSE IF Len(s2.historySteps) = 0
     THEN Raise(s2, "train", "IOError:empty", <<>>, {})
     ELSE trainChain(s2, trainingSet, failAt)

\* trainDynamic without the check of lines 341-342 that the pivot has a step
trainDynamic_noEmptyCheck(s, trainingSet, failAt) ==
  LET s1 == [s EXCEPT !.isADynamicModel = TRUE]
      last == trainingSet.lens[Len(trainingSet.lens)]
      s2 == [s1 EXCEPT !.historySteps = [i \in 1..last |-> i]]
  IN IF trainingSet.pivotName # s.pivotParameterId
     THEN Raise(s1, "train", "IOError:pivotAbsent", <<>>, {})
     ELSE IF trainingSet.pivotKind # "list"
     THEN Raise(s1, "train", "IOError:pivotNotAList", <<>>, {})
     ELSE IF s.canHandleDynamicData
     THEN trainOne(s2, Len(s2.supervisedContainer), whole(trainingSet), failAt = 1)
     ELSE trainChain(s2, trainingSet, failAt)

\* The time-dependent branch of lines 332-360.
trainDynamic(s, trainingSet, failAt) ==
  LET s1 == [s EXCEPT !.isADynamicModel = TRUE]
      \* the pivot sequence of the last realization
      last == trainingSet.lens[Len(trainingSet.lens)]
      s2 == [s1 EXCEPT !.historySteps = [i \in 1..last |-> i]]
  IN IF trainingSet.pivotName # s.pivotParameterId
     THEN Raise(s1, "train", "IOError:pivotAbsent", <<>>, {})
     ELSE IF trainingSet.pivotKind # "list"
     THEN Raise(s1, "train", "IOError:pivotNotAList", <<>>, {})
     ELSE IF Len(s2.historySteps) = 0
     THEN Raise(s2, "train", "IOError:empty", <<>>, {})
     ELSE IF s.canHandleDynamicData
     THEN trainOne(s2, Len(s2.supervisedContainer), whole(trainingSet), failAt = 1)
     ELSE trainChain(s2, trainingSet, failAt)

\* train that does not look at self.segment (lines 326-327 left out)
train_noSegment(s, trainingSet, failAt) ==
  LET s1 == [s EXCEPT !.trainingSet = trainingSet.name]
  IN IF trainingSet.type # "dict" /\ trainingSet.type = "HistorySet" /\ ~checkIndexAlignment(trainingSet)
     THEN Raise(s, "train", "IOError:notSynchronized", <<>>, {})
     ELSE IF Len(s.supervisedContainer) = 0
     THEN Raise(s1, "train", "IndexError", <<>>, {})
     ELSE IF trainingSet.anyList
     THEN trainDynamic(s1, trainingSet, failAt)
     ELSE trainOne(s1, 1, whole(trainingSet), failAt = 1)

\* ROM.train(trainingSet) for a data object or a dict (lines 315-366).
train(s, trainingSet, failAt) ==
  LET s1 == [s EXCEPT !.trainingSet = trainingSet.name]
  IN IF trainingSet.type # "dict" /\ trainingSet.type = "HistorySet" /\ ~checkIndexAlignment(trainingSet)
     THEN Raise(s, "train", "IOError:notSynchronized", <<>>, {})
     ELSE IF Len(s.supervisedContainer) = 0
     THEN Raise(s1, "train", "IndexError", <<>>, {})
     ELSE IF s.segment
     THEN trainOne(s1, 1, whole(trainingSet), failAt = 1)
     ELSE IF trainingSet.anyList
     THEN trainDynamic(s1, trainingSet, failAt)
     ELSE trainOne(s1, 1, whole(trainingSet), failAt = 1)

\* The other ROM objects a facade can be trained from or loaded with (lines 310-314):
\* untrained, trained on a static set, trained as a chain of k per-timestep instances.
otherChain(k) ==
  [i \in 1..k |-> [Backend_readMoreXML(returnInstance("LinearDiscriminantAnalysisClassifier"))
                     EXCEPT !.fit = [name |-> "A", ts |-> IF k = 1 THEN 0 ELSE i]]]
OtherROMs ==
  {[amITrained |-> FALSE, seed |-> None, trainingSet |-> None,
    supervisedContainer |-> <<Backend_readMoreXML(returnInstance("LinearDiscriminantAnalysisClassifier"))>>]}
  \cup
  {[amITrained |-> TRUE, seed |-> "seed7", trainingSet |-> "A",
    supervisedContainer |-> otherChain(k)] : k \in 1..MaxSteps}

\* ROM.train(trainingSet) when trainingSet is itself a ROM (lines 310-314).
trainFromROM(s, obj) ==
  Return([s EXCEPT !.trainingSet = obj.trainingSet,
                   !.amITrained = obj.amITrained,
                   !.supervisedContainer = deepcopy(obj.supervisedContainer),
                   !.seed = obj.seed],
         "train", <<>>, <<>>, 1..Len(obj.supervisedContainer))

\* ------------------------------------------------------------------ evaluate
\* The loop of lines 405-411 with the arguments of np.append exchanged: each new slice
\* is put in front of the results gathered so far.
RECURSIVE evaluateFrom_prepend(_, _, _, _, _)
evaluateFrom_prepend(c, i, nq, resultsDict, cs) ==
  IF i > Len(c)
  THEN [raised |-> None, value |-> <<resultsDict>>, calls |-> cs]
  ELSE
    LET rom == c[i]
        cs1 == Append(cs, Call(i, "run", [name |-> "request", ts |-> nq]))
        sliceEvaluation == Backend_run(rom, nq)
    IN IF rom.fit = Unfit
       THEN [raised |-> "BackendError", value |-> <<>>, calls |-> cs1]
       ELSE IF DOMAIN resultsDict = {}
       THEN evaluateFrom_prepend(c, i + 1, nq, sliceEvaluation, cs1)
       ELSE evaluateFrom_prepend(c, i + 1, nq,
              [key \in DOMAIN resultsDict |-> sliceEvaluation[key] \o resultsDict[key]], cs1)

\* The loop of lines 405-411 from instance i on: run each instance and append its
\* result, key by key, to the results gathered so far.
RECURSIVE evaluateFrom(_, _, _, _, _)
evaluateFrom(c, i, nq, resultsDict, cs) ==
  IF i > Len(c)
  THEN [raised |-> None, value |-> <<resultsDict>>, calls |-> cs]
  ELSE
    LET rom == c[i]
        cs1 == Append(cs, Call(i, "run", [name |-> "request", ts |-> nq]))
        sliceEvaluation == Backend_run(rom, nq)
    IN IF rom.fit = Unfit
       THEN [raised |-> "BackendError", value |-> <<>>, calls |-> cs1]
       ELSE IF DOMAIN resultsDict = {}
       THEN evaluateFrom(c, i + 1, nq, sliceEvaluation, cs1)
       ELSE IF ~(DOMAIN resultsDict \subseteq DOMAIN sliceEvaluation)
       THEN [raised |-> "KeyError", value |-> <<>>, calls |-> cs1]
       ELSE evaluateFrom(c, i + 1, nq,
                         [key \in DOMAIN resultsDict |-> resultsDict[key] \o sliceEvaluation[key]], cs1)

\* evaluate without the amITrained check of lines 399-400
evaluate_noTrainedCheck(s, nq) ==
  LET c == s.supervisedContainer
      r == IF s.segment THEN evaluateFrom(SubSeq(c, 1, 1), 1, nq, [key \in {} |-> <<>>], <<>>)
                        ELSE evaluateFrom(c, 1, nq, [key \in {} |-> <<>>], <<>>)
  IN IF s.pickled
     THEN Raise(s, "evaluate", "RuntimeError:notLoaded", <<>>, {})
     ELSE [self |-> s, calls |-> r.calls, created |-> {},
           outcome |-> [op |-> "evaluate", raised |-> r.raised, value |-> r.value]]

\* evaluate with the two checks of lines 397-400 in the other order
evaluate_trainedCheckFirst(s, nq) ==
  LET c == s.supervisedContainer
      r == IF s.segment THEN evaluateFrom(SubSeq(c, 1, 1), 1, nq, [key \in {} |-> <<>>], <<>>)
                        ELSE evaluateFrom(c, 1, nq, [key \in {} |-> <<>>], <<>>)
  IN IF ~s.amITrained
     THEN Raise(s, "evaluate", "RuntimeError:notTrained", <<>>, {})
     ELSE IF s.pickled
     THEN Raise(s, "evaluate", "RuntimeError:notLoaded", <<>>, {})
     ELSE [self |-> s, calls |-> r.calls, created |-> {},
           outcome |-> [op |-> "evaluate", raised |-> r.raised, value |-> r.value]]

\* evaluate that notes on the facade whether what it returns is a history
evaluate_notesDynamic(s, nq) ==
  LET c == s.supervisedContainer
      r == IF s.segment THEN evaluateFrom(SubSeq(c, 1, 1), 1, nq, [key \in {} |-> <<>>], <<>>)
                        ELSE evaluateFrom(c, 1, nq, [key \in {} |-> <<>>], <<>>)
  IN IF s.pickled
     THEN Raise(s, "evaluate", "RuntimeError:notLoaded", <<>>, {})
     ELSE IF ~s.amITrained
     THEN Raise(s, "evaluate", "RuntimeError:notTrained", <<>>, {})
     ELSE IF s.segment /\ Len(c) = 0
     THEN Raise(s, "evaluate", "IndexError", <<>>, {})
     ELSE [self |-> [s EXCEPT !.isADynamicModel = Len(c) > 1], calls |-> r.calls, created |-> {},
           outcome |-> [op |-> "evaluate", raised |-> r.raised, value |-> r.value]]

\* ROM.evaluate(request), request holding nq query points.
evaluate(s, nq) ==
  LET c == s.supervisedContainer
      r == IF s.segment THEN evaluateFrom(SubSeq(c, 1, 1), 1, nq, [key \in {} |-> <<>>], <<>>)
                        ELSE evaluateFrom(c, 1, nq, [key \in {} |-> <<>>], <<>>)
  IN IF s.pickled
     THEN Raise(s, "evaluate", "RuntimeError:notLoaded", <<>>, {})
     ELSE IF ~s.amITrained
     THEN Raise(s, "evaluate", "RuntimeError:notTrained", <<>>, {})
     ELSE IF s.segment /\ Len(c) = 0
     THEN Raise(s, "evaluate", "IndexError", <<>>, {})
     ELSE [self |-> s, calls |-> r.calls, created |-> {},
           outcome |-> [op |-> "evaluate", raised |-> r.raised, value |-> r.value]]

\* ------------------------------------------------------------------ loading
\* ROM.setAdditionalParams(params)
setAdditionalParams(s, params) ==
  [s EXCEPT !.supervisedContainer =
     [i \in 1..Len(s.supervisedContainer) |-> Backend_setAdditionalParams(s.supervisedContainer[i], params)]]

\* _copyModel that reads the settings after the train call (line 299 after line 301)
_copyModel_settingsAfter(s, obj) ==
  LET r == trainFromROM(s, obj)
      loadSettings == [seed |-> r.self.seed, paramInput |-> r.self._paramInput]
      s1 == setAdditionalParams(r.self, <<loadSettings>>)
  IN Return([s1 EXCEPT !.pickled = FALSE], "_copyModel", <<>>,
            [i \in 1..Len(s1.supervisedContainer) |-> Call(i, "setAdditionalParams", NoArg)],
            r.created)

\* _copyModel that leaves the pickled flag as it was (line 303 left out)
_copyModel_staysPickled(s, obj) ==
  LET loadSettings == [seed |-> s.seed, paramInput |-> s._paramInput]
      r == trainFromROM(s, obj)
      s1 == setAdditionalParams(r.self, <<loadSettings>>)
  IN Return(s1, "_copyModel", <<>>,
            [i \in 1..Len(s1.supervisedContainer) |-> Call(i, "setAdditionalParams", NoArg)],
            r.created)

\* ROM._copyModel(obj)
_copyModel(s, obj) ==
  LET loadSettings == [seed |-> s.seed, paramInput |-> s._paramInput]
      r == trainFromROM(s, obj)
      s1 == setAdditionalParams(r.self, <<loadSettings>>)
  IN Return([s1 EXCEPT !.pickled = FALSE], "_copyModel", <<>>,
            [i \in 1..Len(s1.supervisedContainer) |-> Call(i, "setAdditionalParams", NoArg)],
            r.created)

\* ------------------------------------------------------------------ serialization
\* __getstate__ without the del of line 150
__getstate__keepAssembler(s) ==
  LET dropped == IF ~s.amITrained THEN {"supervisedContainer"} ELSE {}
  IN [k \in (DOMAIN s) \ dropped |-> s[k]]

\* ROM.__getstate__(): the dictionary that is serialized.
__getstate__(s) ==
  LET dropped == {"assemblerDict"} \cup (IF ~s.amITrained THEN {"supervisedContainer"} ELSE {})
  IN [k \in (DOMAIN s) \ dropped |-> s[k]]

\* __setstate__ that restores nothing in place of the chain it did not find (lines 162-164 left out)
__setstate__noInstance(dd) ==
  LET keys == (DOMAIN dd) \cup {"assemblerDict"}
                \cup (IF ~dd.amITrained THEN {"supervisedContainer"} ELSE {})
      s1 == [k \in keys |->
               IF k = "assemblerDict" THEN {}
               ELSE IF k = "supervisedContainer" /\ ~dd.amITrained THEN <<>>
               ELSE dd[k]]
  IN Return(s1, "__setstate__", <<>>, <<>>, {})

\* ROM.__setstate__(d) on the object pickle has just allocated (no __init__ ran).
__setstate__(dd) ==
  LET keys == (DOMAIN dd) \cup {"assemblerDict"}
                \cup (IF ~dd.amITrained THEN {"supervisedContainer"} ELSE {})
      modelInstance == returnInstance(dd.subType)
      s1 == [k \in keys |->
               IF k = "assemblerDict" THEN {}
               ELSE IF k = "supervisedContainer" /\ ~dd.amITrained THEN <<modelInstance>>
               ELSE dd[k]]
  IN Return(s1, "__setstate__", <<>>, <<>>, IF dd.amITrained THEN {} ELSE {1})

\* ------------------------------------------------------------------ initialize
\* The objects the assembler holds, by kind; an object is identified by its name.
CVObjects == {"cvPlain", "cvNoSplits", "cvSplits"}
Estimators == {"est1"}
retrieveObjectFromAssemblerDict(kind, name) == name

\* cvInstance._pp.initializationOptionDict of a cross-validation object: whether it has a
\* 'SciKitLearn' entry, and the n_splits of that entry if it has one.
initializationOptionDict(cv) ==
  IF cv = "cvSplits" THEN [SciKitLearn |-> TRUE, n_splits |-> <<2>>]
  ELSE IF cv = "cvNoSplits" THEN [SciKitLearn |-> TRUE, n_splits |-> <<>>]
  ELSE [SciKitLearn |-> FALSE, n_splits |-> <<>>]

\* a call on an object that is not an element of supervisedContainer (position 0)
CallOn(method, name) == Call(0, method, [name |-> name, ts |-> 0])

\* initialize without the 'is None' halves of the tests of lines 233 and 238
initialize_everyTime(s) ==
  LET getCV == s.cvInstanceName # None
      s1 == IF getCV
            THEN [s EXCEPT !.cvInstance = retrieveObjectFromAssemblerDict("CV", s.cvInstanceName)]
            ELSE s
      getEstimator == s1._estimatorName # None
      s2 == IF getEstimator
            THEN [s1 EXCEPT !._estimator = retrieveObjectFromAssemblerDict("estimator", s1._estimatorName)]
            ELSE s1
      cs == (IF getCV THEN <<CallOn("cvInstance.initialize", s1.cvInstance)>> ELSE <<>>)
            \o (IF getEstimator THEN <<CallOn("_interfaceROM.setEstimator", s2._estimator)>> ELSE <<>>)
  IN Return(s2, "initialize", <<>>, cs, {})

\* ROM.initialize(runInfo, inputs, initDict)
initialize(s) ==
  LET getCV == s.cvInstance = None /\ s.cvInstanceName # None
      s1 == IF getCV
            THEN [s EXCEPT !.cvInstance = retrieveObjectFromAssemblerDict("CV", s.cvInstanceName)]
            ELSE s
      getEstimator == s1._estimator = None /\ s1._estimatorName # None
      s2 == IF getEstimator
            THEN [s1 EXCEPT !._estimator = retrieveObjectFromAssemblerDict("estimator", s1._estimatorName)]
            ELSE s1
      cs == (IF getCV THEN <<CallOn("cvInstance.initialize", s1.cvInstance)>> ELSE <<>>)
            \o (IF getEstimator THEN <<CallOn("_interfaceROM.setEstimator", s2._estimator)>> ELSE <<>>)
  IN Return(s2, "initialize", <<>>, cs, {})

\* ------------------------------------------------------------------ initialize, statement by statement
Threads == 1..MaxThreads

\* the tests of lines 233 and 238
needsCV_always(s) == s.cvInstanceName # None
needsCV(s) == s.cvInstance = None /\ s.cvInstanceName # None
needsEstimator(s) == s._estimator = None /\ s._estimatorName # None

\* ------------------------------------------------------------------ cross validation
\* _checkCV without the else branch of lines 506-507
_checkCV_noElse(s, trainingSize) ==
  LET initDict == initializationOptionDict(s.cvInstance)
  IN IF initDict.SciKitLearn /\ initDict.n_splits # <<>>
     THEN ~(trainingSize < initDict.n_splits[1])
     ELSE TRUE

\* ROM._checkCV(trainingSize)
_checkCV(s, trainingSize) ==
  LET initDict == initializationOptionDict(s.cvInstance)
  IN IF initDict.SciKitLearn /\ initDict.n_splits # <<>>
     THEN ~(trainingSize < initDict.n_splits[1])
     ELSE FALSE

\* What cvInstance._pp.run returns: one entry per cvKey, here the target of each entry
\* (info['targetName']) in the order of the dictionary.
OutputMetrics == {<<>>, <<"y1">>, <<"y1", "y2">>, <<"y1", "y1">>}

\* _crossValidationScore with the test of lines 478-479 made after the reset
_crossValidationScore_lateTest(s, trainingSize, outputMetrics) ==
  LET r  == reset(s)
      cs == r.calls \o <<Call(0, "cvInstance._pp.run", [name |-> s.cvInstance, ts |-> trainingSize])>>
  IN IF s.cvInstance = None
     THEN Raise(s, "convergence", "AttributeError", <<>>, {})
     ELSE IF ~_checkCV(s, trainingSize)
     THEN Return(s, "convergence", <<>>, <<>>, {})
     ELSE IF Len(s.supervisedContainer) > 1
     THEN Raise(r.self, "convergence", "IOError:notImplemented", r.calls, {})
     ELSE Return(r.self, "convergence", <<<<>>>>, cs, {})

\* _crossValidationScore that runs the cross validation without resetting (line 484 left out)
_crossValidationScore_noReset(s, trainingSize, outputMetrics) ==
  LET cs == <<Call(0, "cvInstance._pp.run", [name |-> s.cvInstance, ts |-> trainingSize])>>
      repeated == \E i, j \in DOMAIN outputMetrics : i < j /\ outputMetrics[i] = outputMetrics[j]
      cvMetrics == IF outputMetrics = <<>> THEN <<>>
                   ELSE <<[target |-> outputMetrics[Len(outputMetrics)]]>>
  IN IF Len(s.supervisedContainer) > 1
     THEN Raise(s, "convergence", "IOError:notImplemented", <<>>, {})
     ELSE IF s.cvInstance = None
     THEN Raise(s, "convergence", "AttributeError", <<>>, {})
     ELSE IF ~_checkCV(s, trainingSize)
     THEN Return(s, "convergence", <<>>, <<>>, {})
     ELSE IF repeated
     THEN Raise(s, "convergence", "NameError", cs, {})
     ELSE Return(s, "convergence", <<cvMetrics>>, cs, {})

\* ROM._crossValidationScore(trainingSet), trainingSize = len(trainingSet).
_crossValidationScore(s, trainingSize, outputMetrics) ==
  LET r  == reset(s)
      cs == r.calls \o <<Call(0, "cvInstance._pp.run", [name |-> s.cvInstance, ts |-> trainingSize])>>
      repeated == \E i, j \in DOMAIN outputMetrics : i < j /\ outputMetrics[i] = outputMetrics[j]
      cvMetrics == IF outputMetrics = <<>> THEN <<>>
                   ELSE <<[target |-> outputMetrics[Len(outputMetrics)]]>>
  IN IF Len(s.supervisedContainer) > 1
     THEN Raise(s, "convergence", "IOError:notImplemented", <<>>, {})
     ELSE IF s.cvInstance = None
     THEN Raise(s, "convergence", "AttributeError", <<>>, {})
     ELSE IF ~_checkCV(s, trainingSize)
     THEN Return(s, "convergence", <<>>, <<>>, {})
     ELSE IF repeated
     THEN Raise(r.self, "convergence", "NameError", cs, {})
     ELSE Return(r.self, "convergence", <<cvMetrics>>, cs, {})

\* ROM.convergence(trainingSet)
convergence(s, trainingSize, outputMetrics) == _crossValidationScore(s, trainingSize, outputMetrics)

\* ------------------------------------------------------------------ evaluateSample
\* ROM.evaluateSample(myInput, samplerType, kwargs): the realization built from the
\* sampled input and the result of evaluate.
evaluateSample(s, nq) ==
  LET r == evaluate(s, nq)
      result == r.outcome.value[1]
      rlz == [var \in DOMAIN result \cup {"SampledVars"} |->
                IF var \in DOMAIN result THEN result[var] ELSE [q \in 1..nq |-> q]]
  IN IF r.outcome.raised # None
     THEN Raise(r.self, "evaluateSample", r.outcome.raised, r.calls, {})
     ELSE Return(r.self, "evaluateSample", <<rlz>>, r.calls, {})

\* ------------------------------------------------------------------ the linear-discriminant backend
\* LinearDiscriminantAnalysisClassifier.getInputSpecification: the nodes it adds, each
\* with its declared default.
LDA_getInputSpecification ==
  [solver |-> "svd", Shrinkage |-> None, priors |-> None, n_components |-> None,
   store_covariance |-> "False", tol |-> "1.0e-4", covariance_estimator |-> None]

\* The values a document gives to a node (other than the default).
LDA_solvers == {"lsqr", "eigen"}
LDA_values ==
  [solver |-> "lsqr", Shrinkage |-> "auto", priors |-> "0.5,0.5", n_components |-> "1",
   store_covariance |-> "True", tol |-> "1.0e-3", covariance_estimator |-> "0"]

\* The valid documents: any subset of the declared nodes, each with a value.
LDA_valid ==
  {[k \in K |-> IF k = "solver" THEN solver ELSE LDA_values[k]] :
     K \in SUBSET (DOMAIN LDA_getInputSpecification), solver \in LDA_solvers}

\* paramInput.findNodesAndExtractValues(names): the value of each node found, the declared
\* default of each node not found, and the names with neither.
findNodesAndExtractValues(specs, doc, names) ==
  LET have == {n \in names : n \in DOMAIN doc \/ n \in DOMAIN specs}
  IN [values |-> [n \in have |-> IF n \in DOMAIN doc THEN doc[n] ELSE specs[n]],
      notFound |-> names \ have]

\* _handleInput whose list of names lacks 'tol'
LDA_handleInput_sixNames(doc) ==
  LET r == findNodesAndExtractValues(LDA_getInputSpecification, doc,
             {"solver", "Shrinkage", "priors", "n_components", "store_covariance",
              "covariance_estimator"})
  IN IF r.notFound # {}
     THEN [raised |-> "AssertionError", settings |-> <<>>]
     ELSE [raised |-> None, settings |-> <<r.values>>]

\* LinearDiscriminantAnalysisClassifier._handleInput(paramInput): the settings passed
\* to initializeModel, or the failed assertion.
LDA_handleInput(doc) ==
  LET r == findNodesAndExtractValues(LDA_getInputSpecification, doc,
             {"solver", "Shrinkage", "priors", "n_components", "store_covariance", "tol",
              "covariance_estimator"})
  IN IF r.notFound # {}
     THEN [raised |-> "AssertionError", settings |-> <<>>]
     ELSE [raised |-> None, settings |-> <<r.values>>]

\* a LinearDiscriminantAnalysisClassifier after __init__: no document read, no model
LDA_init == [paramInput |-> <<>>, raised |-> None, settings |-> <<>>]

\* ------------------------------------------------------------------ the state machine
Init ==
  /\ self = ROM_init
  /\ d = <<>>
  /\ outcome = [op |-> "__init__", raised |-> None, value |-> <<>>]
  /\ calls = <<>>
  /\ created = {}
  /\ copied = FALSE
  /\ initialized = [calls |-> 0, cv |-> 0, estimator |-> 0]
  /\ lda = LDA_init
  /\ pool = [pc |-> [t \in Threads |-> "idle"], racing |-> FALSE, done |-> 0]

Apply(r) ==
  /\ self' = r.self
  /\ outcome' = r.outcome
  /\ calls' = r.calls
  /\ created' = r.created

\* The framework reads the input file once for each ROM.
ConfigureWith(documents) ==
  /\ d = <<>>
  /\ self._interfaceROM = None
  /\ \E xml \in documents : Apply(_readMoreXML(self, xml))
  /\ UNCHANGED <<d, copied, initialized, lda, pool>>

\* The framework fills the table of assembled objects (Assembler.generateAssembler).
Assemble ==
  /\ d = <<>>
  /\ self._interfaceROM # None
  /\ self.assemblerDict = {}
  /\ self' = [self EXCEPT !.assemblerDict = {"Classifier", "Metric", "CV", "estimator"}]
  /\ outcome' = [op |-> "generateAssembler", raised |-> None, value |-> <<>>]
  /\ calls' = <<>>
  /\ created' = {}
  /\ UNCHANGED <<d, copied, initialized, lda, pool>>

\* The backend train calls that may raise: any one of those the call makes, or none (0).
FailPoints(s, trainingSet) == 0..Len(train(s, trainingSet, 0).calls)

TrainWith(sets) ==
  /\ d = <<>>
  /\ \E trainingSet \in sets :
       \E failAt \in FailPoints(self, trainingSet) :
         Apply(train(self, trainingSet, failAt))
  /\ UNCHANGED <<d, copied, initialized, lda, pool>>

\* train(obj) and _copyModel(obj) are called by the steps, on a ROM read from the input.
TrainFromROM ==
  /\ d = <<>>
  /\ self._interfaceROM # None
  /\ \E obj \in OtherROMs : Apply(trainFromROM(self, obj))
  /\ UNCHANGED <<d, copied, initialized, lda, pool>>

Evaluate ==
  /\ d = <<>>
  /\ \E nq \in 1..MaxQuery : Apply(evaluate(self, nq))
  /\ UNCHANGED <<d, copied, initialized, lda, pool>>

Reset ==
  /\ d = <<>>
  /\ Apply(reset(self))
  /\ UNCHANGED <<d, copied, initialized, lda, pool>>

CopyModel ==
  /\ d = <<>>
  /\ self._interfaceROM # None
  /\ \E obj \in OtherROMs : Apply(_copyModel(self, obj))
  /\ copied' = TRUE
  /\ UNCHANGED <<d, initialized, lda, pool>>

\* pickle.dumps of a configured ROM ...
GetState ==
  /\ d = <<>>
  /\ self._interfaceROM # None
  /\ d' = <<__getstate__(self)>>
  /\ outcome' = [op |-> "__getstate__", raised |-> None, value |-> <<>>]
  /\ calls' = <<>>
  /\ created' = {}
  /\ UNCHANGED <<self, copied, initialized, lda, pool>>

\* ... and pickle.loads of what was dumped: the restored object takes the place of the ROM.
SetState ==
  /\ d # <<>>
  /\ Apply(__setstate__(d[1]))
  /\ d' = <<>>
  /\ UNCHANGED <<copied, initialized, lda, pool>>

\* The step initializes its models before it runs, after the assembler has been filled.
Initialize ==
  /\ d = <<>>
  /\ self._interfaceROM # None
  /\ self.assemblerDict # {}
  /\ initialized.calls < MaxInit
  /\ LET r == initialize(self)
     IN /\ Apply(r)
        /\ initialized' =
             [calls |-> initialized.calls + 1,
              cv |-> initialized.cv
                       + Cardinality({i \in DOMAIN r.calls : r.calls[i].method = "cvInstance.initialize"}),
              estimator |-> initialized.estimator
                       + Cardinality({i \in DOMAIN r.calls : r.calls[i].method = "_interfaceROM.setEstimator"})]
  /\ UNCHANGED <<d, copied, lda, pool>>

Convergence ==
  /\ d = <<>>
  /\ self._interfaceROM # None
  /\ \E trainingSize \in 0..MaxSize :
       \E outputMetrics \in OutputMetrics :
         Apply(convergence(self, trainingSize, outputMetrics))
  /\ UNCHANGED <<d, copied, initialized, lda, pool>>

EvaluateSample ==
  /\ d = <<>>
  /\ \E nq \in 1..MaxQuery : Apply(evaluateSample(self, nq))
  /\ UNCHANGED <<d, copied, initialized, lda, pool>>

\* The backend parses its part of a document ...
LDA_ParseNode ==
  /\ \E doc \in LDA_valid : lda' = [paramInput |-> <<doc>>, raised |-> None, settings |-> <<>>]
  /\ UNCHANGED <<self, d, outcome, calls, created, copied, initialized, pool>>

\* ... and handles it.
LDA_HandleInput ==
  /\ lda.paramInput # <<>>
  /\ lda.settings = <<>>
  /\ LET r == LDA_handleInput(lda.paramInput[1])
     IN lda' = [lda EXCEPT !.raised = r.raised, !.settings = r.settings]
  /\ UNCHANGED <<self, d, outcome, calls, created, copied, initialized, pool>>

\* initialize run by the workers of a pool, one statement of lines 232-240 at a time.
\* A worker is idle, or about to execute the line its pc names.
Step(t, to, cs) ==
  /\ pool' = [pool EXCEPT !.pc[t] = to,
                          !.done = IF to = "idle" THEN @ + 1 ELSE @]
  /\ outcome' = [op |-> "initialize", raised |-> None, value |-> <<>>]
  /\ calls' = cs
  /\ created' = {}
  /\ UNCHANGED <<d, copied, lda>>

T_Start ==
  \E t \in Threads :
    /\ d = <<>>
    /\ self._interfaceROM # None
    /\ self.assemblerDict # {}
    /\ initialized.calls < MaxInit
    /\ pool.pc[t] = "idle"
    /\ pool' = [pool EXCEPT !.pc[t] = "line233",
                            !.racing = @ \/ (pool.done = 0 /\ \E u \in Threads : pool.pc[u] # "idle")]
    /\ initialized' = [initialized EXCEPT !.calls = @ + 1]
    /\ UNCHANGED <<self, d, outcome, calls, created, copied, lda>>

T_TestCV ==
  \E t \in Threads :
    /\ pool.pc[t] = "line233"
    /\ Step(t, IF needsCV(self) THEN "line234" ELSE "line238", <<>>)
    /\ UNCHANGED <<self, initialized>>

T_RetrieveCV ==
  \E t \in Threads :
    /\ pool.pc[t] = "line234"
    /\ self' = [self EXCEPT !.cvInstance = retrieveObjectFromAssemblerDict("CV", self.cvInstanceName)]
    /\ Step(t, "line235", <<>>)
    /\ UNCHANGED initialized

T_InitializeCV ==
  \E t \in Threads :
    /\ pool.pc[t] = "line235"
    /\ Step(t, "line238", <<CallOn("cvInstance.initialize", self.cvInstance)>>)
    /\ initialized' = [initialized EXCEPT !.cv = @ + 1]
    /\ UNCHANGED self

T_TestEstimator ==
  \E t \in Threads :
    /\ pool.pc[t] = "line238"
    /\ Step(t, IF needsEstimator(self) THEN "line239" ELSE "idle", <<>>)
    /\ UNCHANGED <<self, initialized>>

T_RetrieveEstimator ==
  \E t \in Threads :
    /\ pool.pc[t] = "line239"
    /\ self' = [self EXCEPT !._estimator = retrieveObjectFromAssemblerDict("estimator", self._estimatorName)]
    /\ Step(t, "line240", <<>>)
    /\ UNCHANGED initialized

T_SetEstimator ==
  \E t \in Threads :
    /\ pool.pc[t] = "line240"
    /\ Step(t, "idle", <<CallOn("_interfaceROM.setEstimator", self._estimator)>>)
    /\ initialized' = [initialized EXCEPT !.estimator = @ + 1]
    /\ UNCHANGED self

\* ------------------------------------------------------------------ specifications
\* Spec: the life cycle of a ROM under every configuration document and training set.
Configure == ConfigureWith(Configs)
Train == TrainWith(TrainingSets)

Next ==
  \/ Configure
  \/ Train
  \/ Evaluate
  \/ Reset

Spec == Init /\ [][Next]_vars

\* SpecAll: every operation, a ROM that is also trained from or loaded with another ROM
\* object and serialized and restored between its operations.  Its documents: every
\* backend type, with and without a Segment node; its training sets: the static and the
\* aligned time-dependent sets named B.
SomeConfigs ==
  {xml \in Configs : xml.Segment \in {None, "segment"} /\ xml.pivotParameter = None}
SomeTrainingSets ==
  {ts \in TrainingSets : /\ ts.type = "dict" /\ ts.name = "B" /\ ts.pivotName = "time"
                         /\ (ts.anyList => ts.pivotKind = "list" /\ aligned(ts)
                                           /\ ts.lens[1] > 0)}

ConfigureSome == ConfigureWith(SomeConfigs)
TrainSome == TrainWith(SomeTrainingSets)

NextAll ==
  \/ ConfigureSome
  \/ Assemble
  \/ TrainSome
  \/ TrainFromROM
  \/ CopyModel
  \/ Evaluate
  \/ EvaluateSample
  \/ Reset
  \/ GetState
  \/ SetState

SpecAll == Init /\ [][NextAll]_vars

\* SpecCV: a ROM with a cross-validation object and an estimator, initialized by the
\* step, trained and asked for its cross-validation score.
CVConfigs ==
  [subType : {"LinearDiscriminantAnalysisClassifier"},
   Segment : {None, "segment", "cluster", "interpolate"},
   pivotParameter : {None},
   CV : {None} \cup CVObjects,
   estimator : {None} \cup Estimators]
CVTrainingSets == {ts \in SomeTrainingSets : ts.anyList => Len(ts.lens) = 1}

ConfigureCV == ConfigureWith(CVConfigs)
TrainCV == TrainWith(CVTrainingSets)

NextCV ==
  \/ ConfigureCV
  \/ Assemble
  \/ Initialize
  \/ TrainCV
  \/ Convergence

SpecCV == Init /\ [][NextCV]_vars

\* SpecLDA: the configuration of the linear-discriminant backend, for every valid document.
NextLDA ==
  \/ LDA_ParseNode
  \/ LDA_HandleInput

SpecLDA == Init /\ [][NextLDA]_vars

\* SpecPool: a configured and assembled ROM whose initialize is run by a pool of workers.
NextPool ==
  \/ ConfigureCV
  \/ Assemble
  \/ T_Start
  \/ T_TestCV
  \/ T_RetrieveCV
  \/ T_InitializeCV
  \/ T_TestEstimator
  \/ T_RetrieveEstimator
  \/ T_SetEstimator

SpecPool == Init /\ [][NextPool]_vars

\* ------------------------------------------------------------------ helpers of the properties
configured(s) == s._interfaceROM # None
Request(nq) == [name |-> "request", ts |-> nq]
RunCalls(n, nq) == [i \in 1..n |-> Call(i, "run", Request(nq))]
AllFitted(c) == \A i \in 1..Len(c) : c[i].fit # Unfit

\* C1 as claimed: evaluate on an untrained facade raises the 'has not been trained yet'
\* error and returns nothing, whatever the backend type and the request.
C1_Original ==
  \A nq \in 1..MaxQuery :
    ~self.amITrained =>
      LET r == evaluate(self, nq)
      IN r.outcome.raised = "RuntimeError:notTrained" /\ r.outcome.value = <<>>

\* C1 as amended: evaluate on an untrained facade raises a state error and returns
\* nothing (no backend instance is run, the facade is unchanged): the 'has not been
\* loaded yet' error when the facade is marked pickled, the 'has not been trained yet'
\* error otherwise.
C1_Amended ==
  \A nq \in 1..MaxQuery :
    ~self.amITrained =>
      LET r == evaluate(self, nq)
      IN /\ r.outcome.raised = IF self.pickled THEN "RuntimeError:notLoaded"
                                                ELSE "RuntimeError:notTrained"
         /\ r.outcome.value = <<>>
         /\ r.calls = <<>>
         /\ r.self = self

\* evaluate has raised 'not trained' on a configured facade that has seen a training set
C1_Witness ==
  /\ outcome.op = "evaluate"
  /\ outcome.raised = "RuntimeError:notTrained"
  /\ ~self.amITrained
  /\ self.trainingSet # None
  /\ Len(self.supervisedContainer) >= 1

\* C2: a facade configured as a pickled placeholder and not yet loaded by _copyModel
\* fails every evaluate with 'has not been loaded yet', trained or not; once a
\* _copyModel has completed, evaluate never raises that error again.
C2_NotLoaded ==
  \A nq \in 1..MaxQuery :
    LET r == evaluate(self, nq)
    IN /\ (configured(self) /\ self.subType = "pickledROM" /\ ~copied)
            => r.outcome.raised = "RuntimeError:notLoaded"
       /\ copied => r.outcome.raised # "RuntimeError:notLoaded"

\* evaluate has raised 'not loaded' on a placeholder whose amITrained is true
C2_Witness ==
  /\ outcome.op = "evaluate"
  /\ outcome.raised = "RuntimeError:notLoaded"
  /\ self.subType = "pickledROM"
  /\ self.amITrained
  /\ ~copied

\* C3: on an unsegmented facade whose backend does not handle dynamic data, a successful
\* train on a time-dependent set whose pivot has N steps leaves exactly N instances, all
\* made by this call, instance i having received exactly one train call, on slice i, and
\* the facade trained and dynamic.
C3_ChainOfN ==
  \A trainingSet \in TrainingSets :
    \A failAt \in FailPoints(self, trainingSet) :
      LET r == train(self, trainingSet, failAt)
          N == trainingSet.lens[Len(trainingSet.lens)]
          c == r.self.supervisedContainer
      IN (/\ configured(self) /\ ~self.segment /\ ~self.canHandleDynamicData
          /\ trainingSet.anyList
          /\ r.outcome.raised = None)
         => /\ N >= 1
            /\ Len(c) = N
            /\ r.created = 1..N
            /\ r.calls = [i \in 1..N |-> Call(i, "train", [name |-> trainingSet.name, ts |-> i])]
            /\ \A i \in 1..N : c[i].fit = [name |-> trainingSet.name, ts |-> i]
            /\ r.self.amITrained
            /\ r.self.isADynamicModel
            /\ Len(r.self.historySteps) = N

\* a train has built a chain of MaxSteps instances, each trained on its own slice
C3_Witness ==
  /\ outcome.op = "train"
  /\ outcome.raised = None
  /\ ~self.segment /\ ~self.canHandleDynamicData
  /\ self.isADynamicModel
  /\ Len(self.supervisedContainer) = MaxSteps
  /\ created = 1..MaxSteps
  /\ Len(calls) = MaxSteps
  /\ \A i \in 1..MaxSteps : self.supervisedContainer[i].fit.ts = i

Observables(r) ==
  [raised |-> r.outcome.raised,
   instances |-> Len(r.self.supervisedContainer),
   isADynamicModel |-> r.self.isADynamicModel,
   historySteps |-> r.self.historySteps,
   fits |-> [i \in 1..Len(r.self.supervisedContainer) |-> r.self.supervisedContainer[i].fit],
   evaluate |-> [nq \in 1..MaxQuery |-> evaluate(r.self, nq).outcome]]

\* A freshly constructed facade configured with the document s was configured with.
Fresh(s) == _readMoreXML(ROM_init, s._paramInput[1]).self

\* C5 as claimed: reset() then train(data) on a trained facade is observably equivalent to
\* training a freshly constructed, identically configured facade on the same data.
C5_ResetTrainAsFresh ==
  \A trainingSet \in TrainingSets :
    (configured(self) /\ self.amITrained)
    => Observables(train(reset(self).self, trainingSet, 0))
         = Observables(train(Fresh(self), trainingSet, 0))

\* C6 as claimed: after a successful train on an already trained facade, every instance
\* the facade holds was fitted by that train call.
C6_RetrainRefitsAll ==
  \A trainingSet \in TrainingSets :
    LET r == train(self, trainingSet, 0)
        c == r.self.supervisedContainer
    IN (configured(self) /\ self.amITrained /\ r.outcome.raised = None)
       => \A i \in 1..Len(c) :
            \E k \in 1..Len(r.calls) :
              r.calls[k] = Call(i, "train", c[i].fit)

\* C7 as claimed: train on a time-dependent set (HistorySet or dict) whose realizations do
\* not share a common pivot length raises, trains no backend instance and does not set
\* amITrained.
C7_MisalignedRaises ==
  \A trainingSet \in TrainingSets :
    \A failAt \in FailPoints(self, trainingSet) :
      LET r == train(self, trainingSet, failAt)
      IN (configured(self) /\ trainingSet.anyList /\ trainingSet.pivotKind = "list"
          /\ ~aligned(trainingSet))
         => /\ r.outcome.raised # None
            /\ r.calls = <<>>
            /\ r.self.amITrained = self.amITrained

\* C8: on an unsegmented, configured facade, train on a set with a time-indexed variable
\* raises an IOError when the pivot variable is absent, is not a list or has no step;
\* no backend instance receives a train call and the chain is not replaced.
C8_PivotChecks ==
  \A trainingSet \in TrainingSets :
    \A failAt \in FailPoints(self, trainingSet) :
      LET r == train(self, trainingSet, failAt)
      IN (/\ configured(self) /\ ~self.segment /\ trainingSet.anyList
          /\ \/ trainingSet.pivotName # self.pivotParameterId
             \/ trainingSet.pivotKind # "list"
             \/ trainingSet.lens[Len(trainingSet.lens)] = 0)
         => /\ r.outcome.raised \in {"IOError:pivotAbsent", "IOError:pivotNotAList",
                                     "IOError:empty", "IOError:notSynchronized"}
            /\ r.calls = <<>>
            /\ r.created = {}
            /\ r.self.supervisedContainer = self.supervisedContainer
            /\ r.self.amITrained = self.amITrained

\* a train has raised 'the training set is empty' on a facade holding a chain, still held
C8_Witness ==
  /\ outcome.op = "train"
  /\ outcome.raised = "IOError:empty"
  /\ ~self.segment
  /\ Len(self.supervisedContainer) = MaxSteps
  /\ AllFitted(self.supervisedContainer)
  /\ self.historySteps = <<>>

\* C9: serializing a configured, untrained facade and restoring it gives a facade with
\* amITrained false that holds exactly one backend instance: a fresh, unconfigured, unfit
\* instance of the configured subType, made by the restore and not held before.
C9_UntrainedRoundTrip ==
  /\ (configured(self) /\ ~self.amITrained) =>
       LET r == __setstate__(__getstate__(self))
           c == r.self.supervisedContainer
       IN /\ r.outcome.raised = None
          /\ ~r.self.amITrained
          /\ Len(c) = 1
          /\ c[1] = returnInstance(self._paramInput[1].subType)
          /\ c[1].class = self.subType
          /\ ~c[1].configured /\ c[1].fit = Unfit
          /\ c[1].obj \notin {self._interfaceROM, self._segmentROM}
          /\ r.created = {1}
  /\ (outcome.op = "__setstate__" /\ ~self.amITrained) =>
       /\ Len(self.supervisedContainer) = 1
       /\ self.supervisedContainer[1] = returnInstance(self._paramInput[1].subType)
       /\ created = {1}

\* an untrained facade has been restored after the reset of a chain of several instances
C9_Witness ==
  /\ outcome.op = "__setstate__"
  /\ ~self.amITrained
  /\ self.isADynamicModel
  /\ Len(self.historySteps) >= 2
  /\ Len(self.supervisedContainer) = 1
  /\ created = {1}

\* C10: the serialized state never holds assemblerDict and holds supervisedContainer
\* exactly when the facade is trained; a restored facade has an empty assemblerDict; and
\* restoring the serialized state of a trained facade gives a trained facade holding the
\* same chain of instances.
C10_SerializedState ==
  /\ configured(self) =>
       LET dd == __getstate__(self)
           r  == __setstate__(dd)
       IN /\ "assemblerDict" \notin DOMAIN dd
          /\ ("supervisedContainer" \in DOMAIN dd) <=> self.amITrained
          /\ r.self.assemblerDict = {}
          /\ self.amITrained =>
               /\ r.self.amITrained
               /\ r.self.supervisedContainer = self.supervisedContainer
               /\ r.created = {}
  /\ d # <<>> =>
       /\ "assemblerDict" \notin DOMAIN d[1]
       /\ ("supervisedContainer" \in DOMAIN d[1]) <=> d[1].amITrained
  /\ outcome.op = "__setstate__" => self.assemblerDict = {}

\* a trained facade with assembled objects and a chain of two instances has been serialized
C10_Witness ==
  /\ d # <<>>
  /\ outcome.op = "__getstate__"
  /\ self.amITrained
  /\ self.assemblerDict # {}
  /\ Len(self.supervisedContainer) = 2
  /\ d[1].supervisedContainer = self.supervisedContainer

\* C11: convergence on a facade holding more than one backend instance raises, whatever
\* the training set and the cross-validation object, before any reset and before the
\* cross-validation object is consulted or run: no call is made and the facade, its
\* trained flag and its chain included, is unchanged.
C11_ChainRefused ==
  \A trainingSize \in 0..MaxSize :
    \A outputMetrics \in OutputMetrics :
      Len(self.supervisedContainer) >= 2 =>
        LET r == convergence(self, trainingSize, outputMetrics)
        IN /\ r.outcome.raised = "IOError:notImplemented"
           /\ r.calls = <<>>
           /\ r.self = self

\* convergence has been refused on a trained chain whose cross-validation object would
\* have allowed the scoring
C11_Witness ==
  /\ outcome.op = "convergence"
  /\ outcome.raised = "IOError:notImplemented"
  /\ self.amITrained
  /\ Len(self.supervisedContainer) = MaxSteps
  /\ AllFitted(self.supervisedContainer)
  /\ self.cvInstance = "cvSplits"
  /\ calls = <<>>

\* C12 as claimed: on a segmented facade convergence fails with an error, resets nothing
\* and never runs the cross-validation object.
C12_SegmentedRefused ==
  \A trainingSize \in 0..MaxSize :
    \A outputMetrics \in OutputMetrics :
      (configured(self) /\ self.segment) =>
        LET r == convergence(self, trainingSize, outputMetrics)
        IN /\ r.outcome.raised # None
           /\ r.calls = <<>>
           /\ r.self = self

\* C13 as claimed: when the training set is smaller than n_splits, or the
\* cross-validation object has no SciKitLearn n_splits, convergence returns None, does
\* not run the scoring routine and leaves the facade unchanged.
C13_Original ==
  \A trainingSize \in 0..MaxSize :
    \A outputMetrics \in OutputMetrics :
      LET initDict == initializationOptionDict(self.cvInstance)
          r == convergence(self, trainingSize, outputMetrics)
      IN (/\ self.cvInstance # None
          /\ \/ ~initDict.SciKitLearn
             \/ initDict.n_splits = <<>>
             \/ trainingSize < initDict.n_splits[1])
         => /\ r.outcome.raised = None
            /\ r.outcome.value = <<>>
            /\ r.calls = <<>>
            /\ r.self = self

\* C13 as amended: in those cases convergence never runs the scoring routine and
\* leaves the facade unchanged; it returns None when the facade holds at most one
\* backend instance and raises the error of C11 when it holds more.
C13_Amended ==
  \A trainingSize \in 0..MaxSize :
    \A outputMetrics \in OutputMetrics :
      LET initDict == initializationOptionDict(self.cvInstance)
          r == convergence(self, trainingSize, outputMetrics)
      IN (/\ self.cvInstance # None
          /\ \/ ~initDict.SciKitLearn
             \/ initDict.n_splits = <<>>
             \/ trainingSize < initDict.n_splits[1])
         => /\ r.outcome.raised = IF Len(self.supervisedContainer) > 1
                                  THEN "IOError:notImplemented" ELSE None
            /\ r.outcome.value = <<>>
            /\ r.calls = <<>>
            /\ r.self = self

\* convergence has returned None on a trained facade of one instance, which is still trained
C13_Witness ==
  /\ outcome.op = "convergence"
  /\ outcome.raised = None
  /\ outcome.value = <<>>
  /\ calls = <<>>
  /\ self.cvInstance # None
  /\ self.amITrained
  /\ Len(self.supervisedContainer) = 1
  /\ AllFitted(self.supervisedContainer)

\* Whether train lets the training set through its own checks (lines 317-320, 334-342).
passesChecks(s, trainingSet) ==
  /\ trainingSet.type = "HistorySet" => aligned(trainingSet)
  /\ (~s.segment /\ trainingSet.anyList) =>
       /\ trainingSet.pivotName = s.pivotParameterId
       /\ trainingSet.pivotKind = "list"
       /\ trainingSet.lens[Len(trainingSet.lens)] > 0

\* C14 as claimed: on an unsegmented facade whose backend handles time-dependent data,
\* train makes exactly one train call, on the single held instance, with the whole
\* training set, clones nothing and leaves one instance, for every training set.
C14_Original ==
  \A trainingSet \in TrainingSets :
    \A failAt \in FailPoints(self, trainingSet) :
      (configured(self) /\ ~self.segment /\ self.canHandleDynamicData) =>
        LET r == train(self, trainingSet, failAt)
        IN /\ r.calls = <<Call(1, "train", whole(trainingSet))>>
           /\ r.created = {}
           /\ Len(r.self.supervisedContainer) = 1

\* C14 as amended: it does so for every training set that passes the checks of train
\* (an aligned HistorySet; the pivot present, a list and not empty when a variable is a
\* list); for any other set train raises an IOError and makes no train call; either way
\* nothing is cloned and one instance is held.
C14_Amended ==
  \A trainingSet \in TrainingSets :
    \A failAt \in FailPoints(self, trainingSet) :
      (configured(self) /\ ~self.segment /\ self.canHandleDynamicData) =>
        LET r == train(self, trainingSet, failAt)
        IN /\ Len(self.supervisedContainer) = 1
           /\ IF passesChecks(self, trainingSet)
              THEN /\ r.calls = <<Call(1, "train", whole(trainingSet))>>
                   /\ r.outcome.raised \in {None, "BackendError"}
                   /\ r.outcome.raised = None =>
                        /\ r.self.amITrained
                        /\ r.self.supervisedContainer[1].fit = whole(trainingSet)
              ELSE /\ r.calls = <<>>
                   /\ r.outcome.raised \in {"IOError:pivotAbsent", "IOError:pivotNotAList",
                                            "IOError:empty", "IOError:notSynchronized"}
           /\ r.created = {}
           /\ Len(r.self.supervisedContainer) = 1
           /\ r.self.supervisedContainer[1].obj = "_interfaceROM"

\* a natively dynamic backend has been trained on a time-dependent set of MaxSteps steps
\* by one call on the whole set
C14_Witness ==
  /\ outcome.op = "train"
  /\ outcome.raised = None
  /\ ~self.segment /\ self.canHandleDynamicData
  /\ self.isADynamicModel
  /\ Len(self.historySteps) = MaxSteps
  /\ calls = <<Call(1, "train", [name |-> self.trainingSet, ts |-> 0])>>
  /\ created = {}
  /\ Len(self.supervisedContainer) = 1

\* What C15 says of a static train and the evaluate that follows it.
staticTrainThenEvaluate(s, trainingSet) ==
  LET r == train(s, trainingSet, 0)
      c == r.self.supervisedContainer
  IN /\ r.calls = <<Call(1, "train", whole(trainingSet))>>
     /\ r.outcome.raised = None
     /\ Len(c) = 1
     /\ c[1].obj = "_interfaceROM"
     /\ ~r.self.isADynamicModel
     /\ \A nq \in 1..MaxQuery :
          LET e == evaluate(r.self, nq)
          IN /\ e.outcome.raised = None
             /\ e.calls = RunCalls(1, nq)
             /\ e.outcome.value = <<Backend_run(c[1], nq)>>
             /\ DOMAIN e.outcome.value[1] = Targets
             /\ \A t \in Targets : Len(e.outcome.value[1][t]) = nq

\* C15 as claimed: on a freshly configured unsegmented facade a static train makes one
\* train call on the single instance, leaves one instance and the dynamic flag false, and
\* a following evaluate returns that instance's run result, one entry per query point
\* for every target.
C15_Original ==
  \A trainingSet \in StaticSets :
    (configured(self) /\ ~self.segment /\ self = Fresh(self))
    => staticTrainThenEvaluate(self, trainingSet)

\* C15 as amended: the same, for a facade whose backend type is not the pickled
\* placeholder (on which evaluate raises 'not loaded' until _copyModel).
C15_Amended ==
  \A trainingSet \in StaticSets :
    (configured(self) /\ ~self.segment /\ self = Fresh(self))
    => IF ~self.pickled
       THEN staticTrainThenEvaluate(self, trainingSet)
       ELSE \A nq \in 1..MaxQuery :
              evaluate(train(self, trainingSet, 0).self, nq).outcome.raised = "RuntimeError:notLoaded"

\* a facade trained once, on a static set, has been evaluated on MaxQuery points
C15_Witness ==
  /\ outcome.op = "evaluate"
  /\ outcome.raised = None
  /\ ~self.segment /\ ~self.isADynamicModel /\ self.historySteps = <<>>
  /\ Len(self.supervisedContainer) = 1
  /\ self.supervisedContainer[1].obj = "_interfaceROM"
  /\ self.supervisedContainer[1].fit = [name |-> self.trainingSet, ts |-> 0]
  /\ calls = RunCalls(1, MaxQuery)
  /\ outcome.value = <<Backend_run(self.supervisedContainer[1], MaxQuery)>>
  /\ \A t \in Targets : Len(outcome.value[1][t]) = MaxQuery

\* C16 as claimed: on a segmented facade every train makes exactly one train call on the
\* wrapper with the whole set and clones nothing, every evaluate on the trained facade
\* makes exactly one run call on the wrapper and returns its result, and the facade
\* holds exactly the one wrapper.
C16_Original ==
  (configured(self) /\ self.segment) =>
    /\ Len(self.supervisedContainer) = 1
    /\ self.supervisedContainer[1].obj = "_segmentROM"
    /\ \A trainingSet \in TrainingSets :
         \A failAt \in FailPoints(self, trainingSet) :
           LET r == train(self, trainingSet, failAt)
           IN /\ r.calls = <<Call(1, "train", whole(trainingSet))>>
              /\ r.created = {}
    /\ \A nq \in 1..MaxQuery :
         self.amITrained =>
           LET e == evaluate(self, nq)
           IN /\ e.calls = RunCalls(1, nq)
              /\ e.outcome.raised = None
              /\ e.outcome.value = <<Backend_run(self.supervisedContainer[1], nq)>>

\* C16 as amended: every train that is not refused for a misaligned HistorySet (which
\* raises and calls nothing), and every evaluate on a trained facade that is not a pickled
\* placeholder (which raises 'not loaded' and runs nothing).
C16_Amended ==
  (configured(self) /\ self.segment) =>
    /\ Len(self.supervisedContainer) = 1
    /\ self.supervisedContainer[1].obj = "_segmentROM"
    /\ \A trainingSet \in TrainingSets :
         \A failAt \in FailPoints(self, trainingSet) :
           LET r == train(self, trainingSet, failAt)
           IN /\ IF passesChecks(self, trainingSet)
                 THEN r.calls = <<Call(1, "train", whole(trainingSet))>>
                 ELSE r.calls = <<>> /\ r.outcome.raised = "IOError:notSynchronized"
              /\ r.created = {}
              /\ r.self.historySteps = self.historySteps
              /\ r.self.isADynamicModel = self.isADynamicModel
    /\ \A nq \in 1..MaxQuery :
         self.amITrained =>
           LET e == evaluate(self, nq)
           IN IF self.pickled
              THEN e.calls = <<>> /\ e.outcome.raised = "RuntimeError:notLoaded"
              ELSE /\ e.calls = RunCalls(1, nq)
                   /\ e.outcome.raised = None
                   /\ e.outcome.value = <<Backend_run(self.supervisedContainer[1], nq)>>

\* a segmented facade, trained on a whole set by one call on its wrapper, has been
\* evaluated by one run of the wrapper
C16_Witness ==
  /\ outcome.op = "evaluate"
  /\ outcome.raised = None
  /\ self.segment
  /\ Len(self.supervisedContainer) = 1
  /\ self.supervisedContainer[1].obj = "_segmentROM"
  /\ self.supervisedContainer[1].fit = [name |-> self.trainingSet, ts |-> 0]
  /\ calls = RunCalls(1, MaxQuery)
  /\ outcome.value = <<Backend_run(self.supervisedContainer[1], MaxQuery)>>

\* C17: evaluate and evaluateSample leave the facade as it was, whether they return or
\* raise (trained, pickled and dynamic flags, history steps, training set, seed and held
\* instances included), and make no instance; so an evaluate gives the same outcome
\* after any other evaluate or evaluateSample as it gives alone.
C17_EvaluateFrame ==
  \A nq \in 1..MaxQuery :
    LET e  == evaluate(self, nq)
        es == evaluateSample(self, nq)
    IN /\ e.self = self /\ e.created = {}
       /\ es.self = self /\ es.created = {}
       /\ es.calls = e.calls
       /\ es.outcome.raised = e.outcome.raised
       /\ \A other \in 1..MaxQuery :
            /\ evaluate(evaluate(self, other).self, nq).outcome = e.outcome
            /\ evaluateSample(evaluateSample(self, other).self, nq).outcome = es.outcome

\* evaluateSample has returned the realization of a chain of MaxSteps instances
C17_Witness ==
  /\ outcome.op = "evaluateSample"
  /\ outcome.raised = None
  /\ self.amITrained
  /\ Len(self.supervisedContainer) = MaxSteps
  /\ calls = RunCalls(MaxSteps, MaxQuery)
  /\ "SampledVars" \in DOMAIN outcome.value[1]

\* C18: over the initialize calls made on a facade, the cross-validation object is
\* retrieved and initialized at most once and the estimator is retrieved and handed to
\* the backend at most once; after the first initialize each has happened exactly once
\* when its name was configured and never when it was not, and a further initialize
\* does nothing.
C18_InitializeOnce ==
  /\ initialized.cv <= 1
  /\ initialized.estimator <= 1
  /\ initialized.calls >= 1 =>
       /\ initialized.cv = IF self.cvInstanceName # None THEN 1 ELSE 0
       /\ initialized.estimator = IF self._estimatorName # None THEN 1 ELSE 0
       /\ initialize(self).calls = <<>>
       /\ initialize(self).self = self
  /\ self.cvInstance # None => self.cvInstance = self.cvInstanceName
  /\ self._estimator # None => self._estimator = self._estimatorName

\* initialize has run MaxInit times on a facade configured with both names
C18_Witness ==
  /\ initialized = [calls |-> MaxInit, cv |-> 1, estimator |-> 1]
  /\ outcome.op = "initialize"
  /\ calls = <<>>
  /\ self.cvInstance # None
  /\ self._estimator # None

\* C19: configuring with a subType that is not registered raises the lookup error of the
\* registry and leaves the facade without a backend instance: _interfaceROM None, the
\* list of instances empty, not trained, not pickled; nothing is made or called.
C19_UnregisteredSubType ==
  /\ \A xml \in Configs :
       (xml.subType \notin registered /\ self._interfaceROM = None) =>
         LET r == _readMoreXML(self, xml)
         IN /\ r.outcome.raised = "LookupError"
            /\ r.self._interfaceROM = None
            /\ r.self.supervisedContainer = <<>>
            /\ ~r.self.amITrained
            /\ ~r.self.pickled
            /\ r.calls = <<>>
            /\ r.created = {}
  /\ (outcome.op = "_readMoreXML" /\ self.subType \notin registered) =>
       /\ outcome.raised = "LookupError"
       /\ self._interfaceROM = None
       /\ self.supervisedContainer = <<>>
       /\ ~self.amITrained
       /\ ~self.pickled
  /\ self.subType \notin registered => self._interfaceROM = None /\ self.supervisedContainer = <<>>

\* a configuration with an unregistered subType has failed
C19_Witness ==
  /\ outcome.op = "_readMoreXML"
  /\ outcome.raised = "LookupError"
  /\ self.subType = "NoSuchROM"
  /\ self._interfaceROM = None
  /\ self.supervisedContainer = <<>>

\* C20: _handleInput passes initializeModel exactly the seven parameters solver,
\* Shrinkage, priors, n_components, store_covariance, tol and covariance_estimator: each
\* with the value the document gives it, or with its default (svd, None, None, None,
\* False, 1.0e-4, None) when the document does not; and its assertion never fails.
C20_SevenParameters ==
  /\ lda.raised = None
  /\ \A doc \in LDA_valid : LDA_handleInput(doc).raised = None
  /\ lda.settings # <<>> =>
       LET doc == lda.paramInput[1]
           settings == lda.settings[1]
           default == [solver |-> "svd", Shrinkage |-> "None", priors |-> "None",
                       n_components |-> "None", store_covariance |-> "False",
                       tol |-> "1.0e-4", covariance_estimator |-> "None"]
       IN /\ DOMAIN settings = {"solver", "Shrinkage", "priors", "n_components",
                                "store_covariance", "tol", "covariance_estimator"}
          /\ \A k \in DOMAIN settings :
               settings[k] = IF k \in DOMAIN doc THEN doc[k] ELSE default[k]

\* a document with two of the seven nodes has been handled
C20_Witness ==
  /\ lda.settings # <<>>
  /\ DOMAIN lda.paramInput[1] = {"solver", "tol"}
  /\ lda.settings[1].solver = "eigen"
  /\ lda.settings[1].tol = "1.0e-3"
  /\ lda.settings[1].store_covariance = "False"
  /\ lda.settings[1].Shrinkage = "None"

\* C21 as claimed: however the initialize calls of the workers interleave, the
\* cross-validation object is initialized at most once and the estimator is set on the
\* backend at most once, and exactly once when all calls are over and its name is configured.
C21_Original ==
  /\ initialized.cv <= 1
  /\ initialized.estimator <= 1
  /\ (pool.done >= 1 /\ \A t \in Threads : pool.pc[t] = "idle") =>
       /\ self.cvInstanceName # None => initialized.cv = 1
       /\ self._estimatorName # None => initialized.estimator = 1

\* C21 as amended: each initialize call performs each initialization at most once, and
\* not at all when the name is not configured; when no call is running and one is over,
\* each configured initialization has been performed; and provided one call was over
\* before two calls ever ran at the same time, each has been performed when a call is
\* over and is performed exactly once.  Without that the workers may each perform it.
C21_Amended ==
  /\ initialized.cv <= initialized.calls
  /\ initialized.estimator <= initialized.calls
  /\ self.cvInstanceName = None => initialized.cv = 0
  /\ self._estimatorName = None => initialized.estimator = 0
  /\ (pool.done >= 1 /\ (~pool.racing \/ \A t \in Threads : pool.pc[t] = "idle")) =>
       /\ self.cvInstanceName # None => initialized.cv >= 1
       /\ self._estimatorName # None => initialized.estimator >= 1
  /\ ~pool.racing => (initialized.cv <= 1 /\ initialized.estimator <= 1)

\* two workers have run initialize one after the other's end and later together, and
\* each initialization has been performed once
C21_Witness ==
  /\ ~pool.racing
  /\ pool.done = MaxInit
  /\ initialized = [calls |-> MaxInit, cv |-> 1, estimator |-> 1]
  /\ \A t \in Threads : pool.pc[t] = "idle"

\* C22 as claimed: whenever train builds a per-timestep chain (first training, re-training
\* with or without reset), the instance it deep-copies once per timestep, the first one
\* the facade holds, carries no fitted state of an earlier train call.
C22_TemplateUntrained ==
  \A trainingSet \in TrainingSets :
    \A failAt \in FailPoints(self, trainingSet) :
      LET r == train(self, trainingSet, failAt)
      IN (configured(self) /\ r.created # {})
         => self.supervisedContainer[1].fit = Unfit

\* C23: convergence runs the cross validation exactly when the facade holds at most one
\* instance and its cross-validation object accepts the training size; when it does, every
\* held instance has been reset before the cross validation is run, and the facade that
\* convergence leaves has amITrained false and no fitted instance, whether or not it was
\* trained before the call.
C23_ResetBeforeScoring ==
  \A trainingSize \in 0..MaxSize :
    \A outputMetrics \in OutputMetrics :
      LET r == convergence(self, trainingSize, outputMetrics)
          c == self.supervisedContainer
          runs == {k \in DOMAIN r.calls : r.calls[k].method = "cvInstance._pp.run"}
      IN (configured(self) /\ self.cvInstance # None) =>
           /\ (runs # {}) <=> (Len(c) <= 1 /\ _checkCV(self, trainingSize))
           /\ \A k \in runs :
                /\ \A i \in 1..Len(c) : \E j \in 1..(k - 1) : r.calls[j] = Call(i, "reset", NoArg)
                /\ ~r.self.amITrained
                /\ \A i \in 1..Len(c) : r.self.supervisedContainer[i].fit = Unfit

\* convergence has computed a score on a facade that had been trained: the instance was
\* reset, then the cross validation was run, and the facade is left untrained
C23_Witness ==
  /\ outcome.op = "convergence"
  /\ outcome.raised = None
  /\ outcome.value # <<>>
  /\ self.trainingSet # None
  /\ ~self.amITrained
  /\ Len(calls) = 2
  /\ calls[1] = Call(1, "reset", NoArg)
  /\ calls[2].method = "cvInstance._pp.run"
  /\ self.supervisedContainer[1].fit = Unfit

\* C24: _copyModel(obj) on a configured facade, a placeholder or not, leaves pickled false,
\* amITrained equal to obj's, and as many instances as obj holds, in obj's order, each a
\* new object equal to obj's instance in class, targets and fitted state; each of them
\* has then received setAdditionalParams, with the seed and the parsed input the facade
\* had before the copy, not those of obj.
C24_CopyModel ==
  \A obj \in OtherROMs :
    LET r == _copyModel(self, obj)
        c == r.self.supervisedContainer
        o == obj.supervisedContainer
    IN configured(self) =>
         /\ r.outcome.raised = None
         /\ ~r.self.pickled
         /\ r.self.amITrained = obj.amITrained
         /\ Len(c) = Len(o)
         /\ r.created = 1..Len(o)
         /\ r.calls = [i \in 1..Len(o) |-> Call(i, "setAdditionalParams", NoArg)]
         /\ \A i \in 1..Len(o) :
              /\ c[i].class = o[i].class
              /\ c[i].configured = o[i].configured
              /\ c[i].target = o[i].target
              /\ c[i].fit = o[i].fit
              /\ c[i].settings = <<[seed |-> self.seed, paramInput |-> self._paramInput]>>

\* a placeholder has been replaced by a copy of a trained chain: every instance is a new
\* object carrying the placeholder's settings, while the facade's seed is now the loaded one
C24_Witness ==
  /\ outcome.op = "_copyModel"
  /\ copied
  /\ self.subType = "pickledROM"
  /\ ~self.pickled
  /\ self.amITrained
  /\ self.seed = "seed7"
  /\ Len(self.supervisedContainer) = MaxSteps
  /\ created = 1..MaxSteps
  /\ \A i \in 1..MaxSteps :
       /\ self.supervisedContainer[i].fit = [name |-> "A", ts |-> i]
       /\ self.supervisedContainer[i].settings = <<[seed |-> None, paramInput |-> self._paramInput]>>

\* C25 as claimed: in no reachable state are pickled and amITrained both true.
C25_Original == ~(self.pickled /\ self.amITrained)

\* C25 as amended: pickled and amITrained both true arises only by a train call, with
\* data or with another ROM, on a placeholder that has not been loaded; no other
\* operation produces it: a state with both true follows a state with both true or a
\* train call on a placeholder, _copyModel always leaves pickled false and reset always
\* leaves amITrained false.
C25_Amended ==
  /\ [](outcome.op = "_copyModel" => ~self.pickled)
  /\ [](outcome.op = "reset" => ~self.amITrained)
  /\ [][(self'.pickled /\ self'.amITrained)
          => /\ self.pickled
             /\ self.amITrained \/ outcome'.op = "train"]_vars

\* a train call with data has succeeded on a placeholder that was never loaded, which is
\* now both pickled and trained
C25_Witness ==
  /\ outcome.op = "train"
  /\ outcome.raised = None
  /\ calls # <<>>
  /\ self.pickled
  /\ self.amITrained
  /\ ~copied

\* C26 as claimed: a configured facade has segment true exactly when it holds one instance
\* and that instance is the segmentation wrapper made at configuration, in every state
\* reached by configuring, training with data or with another ROM, _copyModel, reset and
\* serialize/restore.
C26_SegmentHoldsWrapper ==
  configured(self) =>
    (self.segment <=> (/\ Len(self.supervisedContainer) = 1
                       /\ self.supervisedContainer[1].obj = "_segmentROM"
                       /\ self.supervisedContainer[1].class \in
                            {segmentNameToClass[k] : k \in DOMAIN segmentNameToClass}))

\* C27 as claimed: a facade that holds more than one instance has isADynamicModel true and
\* exactly one value of historySteps per held instance, in every state reached by training
\* with data or with another ROM, _copyModel, reset and serialize/restore.
C27_ChainHasPivotValues ==
  Len(self.supervisedContainer) > 1 =>
    /\ self.isADynamicModel
    /\ Len(self.historySteps) = Len(self.supervisedContainer)

\* C28 as claimed: a train call that raises (alignment check, pivot checks, slicing, or a
\* backend train at any timestep) leaves the facade either with amITrained false, or with
\* amITrained true and the chain, the dynamic flag and the history steps it had before the
\* call, every held instance fitted.
C28_FailedTrainKeepsState ==
  \A trainingSet \in TrainingSets :
    \A failAt \in FailPoints(self, trainingSet) :
      LET r == train(self, trainingSet, failAt)
      IN (configured(self) /\ r.outcome.raised # None) =>
           \/ ~r.self.amITrained
           \/ /\ r.self.supervisedContainer = self.supervisedContainer
              /\ r.self.isADynamicModel = self.isADynamicModel
              /\ r.self.historySteps = self.historySteps
              /\ AllFitted(r.self.supervisedContainer)

====
